---- MODULE Spec2Model ----
(***************************************************************************)
(* Entity-resolution pipeline (normalize / build_index / match_names /     *)
(* overrides / deduplication / join) and locked-stock unlock simulators    *)
(* of the scripts/ directory.                                              *)
(*                                                                         *)
(* Characters are tokens: "Alpha" is the Greek capital letter, "alpha" the *)
(* Greek small letter, "alpha_t" the small letter with tonos, "Alpha_t"    *)
(* the capital with tonos; Latin letters, digits, " " and "-" stand for    *)
(* themselves.  A name is a sequence of tokens.                            *)
(***************************************************************************)
EXTENDS Integers, Sequences, FiniteSets, TLC

VARIABLES text, text2, key, key2, rekey, nidx, npc,
          script, pc, gdf, muni_df, idx_map, dedup, merged, sim, unlock, alpha,
          nat, report, rows_in, levels, frames,
          csigma, ctourism, clabel, cpc

nvars == <<text, text2, key, key2, rekey, nidx, npc>>
pvars == <<script, pc, gdf, muni_df, idx_map, dedup, merged, sim, unlock, alpha,
          nat, report, rows_in, levels, frames>>
cvars == <<csigma, ctourism, clabel, cpc>>
vars == <<text, text2, key, key2, rekey, nidx, npc,
          script, pc, gdf, muni_df, idx_map, dedup, merged, sim, unlock, alpha,
          nat, report, rows_in, levels, frames,
          csigma, ctourism, clabel, cpc>>

\* no classifier was called
NoLabels == [row |-> <<>>, eu |-> <<>>, re |-> <<>>, sim |-> <<>>]
ClassIdle ==
  csigma = <<>> /\ ctourism = <<>> /\ clabel = NoLabels /\ cpc = "idle"

\* missing values: a missing name, a missing count, a missing score
NAName == <<"<NA>">>
NACount == -1
NAScore == -1

\* what a run printed about the coverage of the join
NoReport ==
  [printed |-> "nothing", matched_count |-> 0,
   unmatched_json |-> <<>>, unmatched_shapes |-> <<>>]

\* ------------------------------------------------------------------------
\* Bounds
\* ------------------------------------------------------------------------
MaxLen == 2
MaxRows == 2
MaxCands == 2

\* ------------------------------------------------------------------------
\* Numbers: a float is an exact fraction <<n, d>> in lowest terms with d > 0;
\* NaN is <<0, 0>>, +inf is <<1, 0>>, -inf is <<-1, 0>>
\* ------------------------------------------------------------------------
NaN == <<0, 0>>
Inf == <<1, 0>>

Abs(x) == IF x < 0 THEN -x ELSE x

RECURSIVE GCD(_, _)
GCD(a, b) == IF b = 0 THEN a ELSE GCD(b, a % b)

Rat(n, d) ==
  IF d = 0 THEN (IF n = 0 THEN NaN ELSE IF n > 0 THEN Inf ELSE <<-1, 0>>)
  ELSE LET g == GCD(Abs(n), Abs(d))
           sg == IF d < 0 THEN -1 ELSE 1
       IN <<sg * (n \div g), sg * (d \div g)>>

IntR(k) == <<k, 1>>
IsNaN(a) == a = NaN
IsFinite(a) == a[2] # 0

RMul(a, b) ==
  IF IsNaN(a) \/ IsNaN(b) THEN NaN
  ELSE IF ~IsFinite(a) \/ ~IsFinite(b)
    THEN (IF a[1] = 0 \/ b[1] = 0 THEN NaN
          ELSE IF (a[1] > 0) = (b[1] > 0) THEN Inf ELSE <<-1, 0>>)
  ELSE LET x == Rat(a[1], b[2])
           y == Rat(b[1], a[2])
       IN Rat(x[1] * y[1], x[2] * y[2])

\* IEEE division: x/0 is +-inf, 0/0 is NaN
RInv(a) ==
  IF IsNaN(a) THEN NaN
  ELSE IF ~IsFinite(a) THEN <<0, 1>>
  ELSE Rat(a[2], a[1])

RDiv(a, b) ==
  IF IsNaN(a) \/ IsNaN(b) THEN NaN
  ELSE IF ~IsFinite(a) /\ ~IsFinite(b) THEN NaN
  ELSE IF b[1] = 0 /\ a[1] = 0 THEN NaN
  ELSE RMul(a, RInv(b))

RAdd(a, b) ==
  IF IsNaN(a) \/ IsNaN(b) THEN NaN
  ELSE IF ~IsFinite(a) /\ ~IsFinite(b) THEN (IF a = b THEN a ELSE NaN)
  ELSE IF ~IsFinite(a) THEN a
  ELSE IF ~IsFinite(b) THEN b
  ELSE LET g == GCD(a[2], b[2])
       IN Rat(a[1] * (b[2] \div g) + b[1] * (a[2] \div g), a[2] * (b[2] \div g))

RNeg(a) == <<-a[1], a[2]>>
RSub(a, b) == RAdd(a, RNeg(b))

\* n1/d1 < n2/d2 for n1, n2 >= 0 and d1, d2 > 0, by integer parts and
\* reciprocals of the remainders (no product is formed)
RECURSIVE PosLt(_, _, _, _)
PosLt(n1, d1, n2, d2) ==
  IF n1 \div d1 # n2 \div d2 THEN n1 \div d1 < n2 \div d2
  ELSE IF n2 % d2 = 0 THEN FALSE
  ELSE IF n1 % d1 = 0 THEN TRUE
  ELSE PosLt(d2, n2 % d2, d1, n1 % d1)

\* a < b (false when either is NaN)
RLt(a, b) ==
  IF IsNaN(a) \/ IsNaN(b) THEN FALSE
  ELSE IF ~IsFinite(a) THEN a[1] < 0 /\ b # a
  ELSE IF ~IsFinite(b) THEN b[1] > 0
  ELSE IF a[1] < 0 /\ b[1] >= 0 THEN TRUE
  ELSE IF a[1] >= 0 /\ b[1] < 0 THEN FALSE
  ELSE IF a[1] >= 0 THEN PosLt(a[1], a[2], b[1], b[2])
  ELSE PosLt(-b[1], b[2], -a[1], a[2])

RLe(a, b) == ~IsNaN(a) /\ ~IsNaN(b) /\ (a = b \/ RLt(a, b))

\* round(x, 4)
Round4(a) ==
  IF ~IsFinite(a) THEN a
  ELSE LET m == 10000 * a[1]
           q == (2 * Abs(m) + a[2]) \div (2 * a[2])
       IN Rat(IF m < 0 THEN -q ELSE q, 10000)

RECURSIVE RPow(_, _)
RPow(a, k) == IF k = 0 THEN <<1, 1>> ELSE RMul(a, RPow(a, k - 1))

\* ------------------------------------------------------------------------
\* Transliterator and Normalizer
\* ------------------------------------------------------------------------
UpperLatin == <<"A","B","C","D","E","F","G","H","I","J","K","L","M",
                "N","O","P","Q","R","S","T","U","V","W","X","Y","Z">>
LowerLatin == <<"a","b","c","d","e","f","g","h","i","j","k","l","m",
                "n","o","p","q","r","s","t","u","v","w","x","y","z">>
Digits == {"0","1","2","3","4","5","6","7","8","9"}

\* the entries of the table for the Greek letters the model's names use
GREEK_TO_LATIN ==
  [ch \in {"Alpha","Gamma","Eta","Theta","Iota","Lambda","Mu","Nu","Xi",
           "Omicron","Rho","Sigma","Tau","Upsilon","Omega",
           "alpha_t","eta_t","alpha","eta","theta","sigma_f"} |->
     CASE ch = "Alpha"   -> <<"A">>
       [] ch = "Gamma"   -> <<"G">>
       [] ch = "Eta"     -> <<"I">>
       [] ch = "Theta"   -> <<"T","h">>
       [] ch = "Iota"    -> <<"I">>
       [] ch = "Lambda"  -> <<"L">>
       [] ch = "Mu"      -> <<"M">>
       [] ch = "Nu"      -> <<"N">>
       [] ch = "Xi"      -> <<"X">>
       [] ch = "Omicron" -> <<"O">>
       [] ch = "Rho"     -> <<"R">>
       [] ch = "Sigma"   -> <<"S">>
       [] ch = "Tau"     -> <<"T">>
       [] ch = "Upsilon" -> <<"Y">>
       [] ch = "Omega"   -> <<"O">>
       [] ch = "alpha_t" -> <<"a">>
       [] ch = "eta_t"   -> <<"i">>
       [] ch = "alpha"   -> <<"a">>
       [] ch = "eta"     -> <<"i">>
       [] ch = "theta"   -> <<"t","h">>
       [] ch = "sigma_f" -> <<"s">>]

\* str.lower() on one character
LowerChar(ch) ==
  IF \E i \in 1..26 : UpperLatin[i] = ch
    THEN LowerLatin[CHOOSE i \in 1..26 : UpperLatin[i] = ch]
    ELSE CASE ch = "Alpha"   -> "alpha"
           [] ch = "Eta"     -> "eta"
           [] ch = "Theta"   -> "theta"
           [] ch = "Alpha_t" -> "alpha_t"
           [] ch = "Eta_t"   -> "eta_t"
           [] OTHER          -> ch

RECURSIVE transliterate(_)
transliterate(t) ==
  IF t = <<>> THEN <<>>
  ELSE (IF Head(t) \in DOMAIN GREEK_TO_LATIN THEN GREEK_TO_LATIN[Head(t)]
                                              ELSE <<Head(t)>>)
       \o transliterate(Tail(t))

lower(t) == [i \in 1..Len(t) |-> LowerChar(t[i])]

IsAlnum(ch) == (\E i \in 1..26 : LowerLatin[i] = ch) \/ ch \in Digits

\* re.sub(r"[^a-z0-9]+", "", t)
StripNonAlnum(t) == SelectSeq(t, IsAlnum)

\* a normalize that strips with a case-blind pattern and never lowercases
normalize_keepcase(t) ==
  SelectSeq(transliterate(t), LAMBDA ch : IsAlnum(LowerChar(ch)))

normalize(t) == StripNonAlnum(lower(transliterate(t)))

\* ------------------------------------------------------------------------
\* Index Builder: the dict is a sequence of <<key, name>> in insertion order
\* ------------------------------------------------------------------------
HasKey(idx, k) == \E i \in 1..Len(idx) : idx[i][1] = k
Lookup(idx, k) == idx[CHOOSE i \in 1..Len(idx) : idx[i][1] = k][2]

\* an index builder in which a later name replaces the stored one
RECURSIVE IndexFoldLastWins(_, _)
IndexFoldLastWins(idx, names) ==
  IF names = <<>> THEN idx
  ELSE LET norm == normalize(Head(names))
       IN IndexFoldLastWins(
            IF norm = <<>> THEN idx
            ELSE IF HasKey(idx, norm)
              THEN [i \in 1..Len(idx) |->
                      IF idx[i][1] = norm THEN <<norm, Head(names)>> ELSE idx[i]]
              ELSE Append(idx, <<norm, Head(names)>>),
            Tail(names))

RECURSIVE IndexFold(_, _)
IndexFold(idx, names) ==
  IF names = <<>> THEN idx
  ELSE LET norm == normalize(Head(names))
       IN IndexFold(IF norm # <<>> /\ ~HasKey(idx, norm)
                      THEN Append(idx, <<norm, Head(names)>>)
                      ELSE idx,
                    Tail(names))

build_index(names) == IndexFold(<<>>, names)

\* ------------------------------------------------------------------------
\* Normalizer and Index Builder applied to arbitrary short strings
\* ------------------------------------------------------------------------
Alphabet == {"Alpha", "alpha", "alpha_t", "Alpha_t", "Theta", "A", " "}

Texts == UNION {[1..k -> Alphabet] : k \in 0..MaxLen}

NormInit ==
  /\ text \in Texts
  /\ text2 \in Texts
  /\ key = <<>> /\ key2 = <<>> /\ rekey = <<>> /\ nidx = <<>>
  /\ npc = "start"
  /\ script = "none" /\ pc = "idle"
  /\ gdf = <<>> /\ muni_df = <<>> /\ idx_map = <<>> /\ dedup = <<>>
  /\ merged = <<>> /\ sim = <<>> /\ unlock = <<0, 1>> /\ alpha = 1
  /\ nat = NaN /\ report = NoReport /\ rows_in = 0
  /\ levels = <<>> /\ frames = <<>>
  /\ ClassIdle

\* key = normalize(text); key2 = normalize(text2)
Normalize ==
  /\ npc = "start"
  /\ key' = normalize(text)
  /\ key2' = normalize(text2)
  /\ npc' = "normalized"
  /\ UNCHANGED <<text, text2, rekey, nidx>>
  /\ UNCHANGED <<pvars, cvars>>

\* rekey = normalize(key)
Renormalize ==
  /\ npc = "normalized"
  /\ rekey' = normalize(key)
  /\ npc' = "renormalized"
  /\ UNCHANGED <<text, text2, key, key2, nidx>>
  /\ UNCHANGED <<pvars, cvars>>

\* nidx = build_index([text, text2])
BuildIndexOfTexts ==
  /\ npc = "renormalized"
  /\ nidx' = build_index(<<text, text2>>)
  /\ npc' = "indexed"
  /\ UNCHANGED <<text, text2, key, key2, rekey>>
  /\ UNCHANGED <<pvars, cvars>>

\* ------------------------------------------------------------------------
\* Names and override tables (the entries the model's names use)
\* ------------------------------------------------------------------------
IITON == <<"Iota","Eta","Tau","Omega","Nu">>
IOS_GR == <<"Iota","Omicron","Sigma">>
SAMIS == <<"Sigma","Alpha","Mu","Eta","Sigma">>
LIXOURIOU == <<"Lambda","Eta","Xi","Omicron","Upsilon","Rho","Iota","Omicron","Upsilon">>
ARGOSTOLIOU == <<"Alpha","Rho","Gamma","Omicron","Sigma","Tau","Omicron","Lambda",
                 "Iota","Omicron","Upsilon">>
BLANK == <<" ">>

Ios == <<"I","o","s">>
Cephalonia == <<"C","e","p","h","a","l","o","n","i","a">>
Athos == <<"A","t","h","o","s">>

\* candidate key -> source name, in dict order
OVER_ONE == << <<Ios, IITON>> >>

\* candidate key -> list of source names, in dict order
OVER_MANY == << <<Cephalonia, <<ARGOSTOLIOU, LIXOURIOU, SAMIS>> >> >>

SrcNames == {IITON, IOS_GR, SAMIS, LIXOURIOU, BLANK}
CandNames == {Ios, Cephalonia, Athos}

Scripts == {"choropleth_municipalities", "generate_unlock_gif", "choropleth_archetypes",
            "unlock_simulator", "unlock_simulator_interactive", "export_unlock_json"}

\* ------------------------------------------------------------------------
\* Source records
\* ------------------------------------------------------------------------
\* the counts of one municipality: no dwellings, a fifth empty, two fifths
\* empty, one empty dwelling in 64 (sigma 0.015625, stored as 0.0156), a
\* quarter empty (F 1.3333..., stored as 1.3333) and every dwelling empty
NoDwellings ==
  [s_total |-> 0, s_empty |-> 0, for_rent |-> 0, for_sale |-> 0,
   vacation |-> 0, secondary |-> 0, other_reason |-> 0]
FifthEmpty ==
  [s_total |-> 100, s_empty |-> 20, for_rent |-> 5, for_sale |-> 5,
   vacation |-> 4, secondary |-> 4, other_reason |-> 2]
TwoFifthsEmpty ==
  [s_total |-> 100, s_empty |-> 40, for_rent |-> 10, for_sale |-> 5,
   vacation |-> 10, secondary |-> 5, other_reason |-> 10]
OneIn64Empty ==
  [s_total |-> 64, s_empty |-> 1, for_rent |-> 0, for_sale |-> 0,
   vacation |-> 1, secondary |-> 0, other_reason |-> 0]

QuarterEmpty ==
  [s_total |-> 1000, s_empty |-> 250, for_rent |-> 100, for_sale |-> 50,
   vacation |-> 50, secondary |-> 25, other_reason |-> 25]
AllEmpty ==
  [s_total |-> 10, s_empty |-> 10, for_rent |-> 2, for_sale |-> 2,
   vacation |-> 2, secondary |-> 2, other_reason |-> 2]

Profiles == {NoDwellings, FifthEmpty, TwoFifthsEmpty, OneIn64Empty,
             QuarterEmpty, AllEmpty}

\* the counts each municipality of the input file is tried with
ProfilesOf(name) ==
  CASE name = IITON -> {FifthEmpty, OneIn64Empty}
    [] name = SAMIS -> {NoDwellings, FifthEmpty}
    [] name = LIXOURIOU -> {TwoFifthsEmpty, QuarterEmpty}
    [] name = IOS_GR -> {FifthEmpty, AllEmpty}
    [] OTHER -> {NoDwellings, OneIn64Empty}

\* a row all of whose columns are missing
BlankRow ==
  [label |-> 0, name |-> NAName,
   s_total |-> NACount, s_empty |-> NACount, for_rent |-> NACount,
   for_sale |-> NACount, vacation |-> NACount, secondary |-> NACount,
   other_reason |-> NACount,
   sigma |-> NaN, F |-> NaN,
   share_market |-> NaN, share_tourism |-> NaN, share_system_failure |-> NaN,
   archetype |-> "NA",
   matched_name |-> NAName, match_score |-> NAScore]

\* one entry of "municipalities" in friction_by_municipality.json
MuniRecord(label, name, p) ==
  LET sigma == Rat(p.s_empty, p.s_total)
      F == RInv(RSub(IntR(1), sigma))
  IN [BlankRow EXCEPT
        !.label = label, !.name = name,
        !.s_total = p.s_total, !.s_empty = p.s_empty,
        !.for_rent = p.for_rent, !.for_sale = p.for_sale,
        !.vacation = p.vacation, !.secondary = p.secondary,
        !.other_reason = p.other_reason,
        !.sigma = Round4(sigma), !.F = Round4(F)]

Distinct(f) == \A i, j \in DOMAIN f : i # j => f[i] # f[j]

\* the tables of k rows over the names ns
TablesOver(k, ns) ==
  { [i \in 1..k |-> MuniRecord(i - 1, ns[i], ps[i])] :
      ps \in {g \in [1..k -> Profiles] : \A i \in 1..k : g[i] \in ProfilesOf(ns[i])} }

JsonTables ==
  UNION { UNION { TablesOver(k, ns) : ns \in {f \in [1..k -> SrcNames] : Distinct(f)} } :
          k \in 0..MaxRows }

\* the polygons in the order the shapefile lists them
ShapeFile == <<Ios, Cephalonia, Athos>>

\* the rows of the shapefile with the positions in S, in file order
RowsOf(S) ==
  LET F[i \in 0..Len(ShapeFile)] ==
        IF i = 0 THEN <<>>
        ELSE IF i \in S THEN Append(F[i - 1], ShapeFile[i]) ELSE F[i - 1]
  IN F[Len(ShapeFile)]

\* a shapefile of at most MaxCands of the polygons
Shapes ==
  { RowsOf(S) : S \in {T \in SUBSET (1..Len(ShapeFile)) : Cardinality(T) <= MaxCands} }

\* ------------------------------------------------------------------------
\* Archetype classifiers
\* ------------------------------------------------------------------------
classify_row(sigma) ==
  IF RLt(sigma, <<1, 10>>) THEN "EU_EFFICIENT"
  ELSE IF RLt(sigma, <<3, 20>>) THEN "EU_NORMAL"
  ELSE IF RLt(sigma, <<1, 5>>) THEN "MEDITERRANEAN_ACCEPTABLE"
  ELSE IF RLt(sigma, <<3, 10>>) THEN "ELEVATED_FRICTION"
  ELSE IF RLt(sigma, <<1, 2>>) THEN "STRUCTURAL_DYSFUNCTION"
  ELSE "MARKET_COLLAPSE"

\* the tourism test without its sigma > 0.5
reclassify_tourism_first(sigma, tourism) ==
  IF RLt(<<3, 10>>, tourism) THEN "TOURIST_DRAIN"
  ELSE IF RLt(<<1, 2>>, sigma) THEN "SYSTEM_FAILURE"
  ELSE IF RLe(<<1, 4>>, sigma) /\ RLe(sigma, <<1, 2>>) THEN "TRANSITIONAL"
  ELSE "HEALTHY"

reclassify(sigma, tourism) ==
  IF RLt(<<1, 2>>, sigma) /\ RLt(<<3, 10>>, tourism) THEN "TOURIST_DRAIN"
  ELSE IF RLt(<<1, 2>>, sigma) THEN "SYSTEM_FAILURE"
  ELSE IF RLe(<<1, 4>>, sigma) /\ RLe(sigma, <<1, 2>>) THEN "TRANSITIONAL"
  ELSE "HEALTHY"

\* ------------------------------------------------------------------------
\* Loading the source table
\* ------------------------------------------------------------------------
Relabel(df) == [i \in 1..Len(df) |-> [df[i] EXCEPT !.label = i - 1]]

\* df[df["s_total"] > 0]: row labels are kept
FilterPositiveTotal(df) == SelectSeq(df, LAMBDA r : r.s_total > 0)

\* analyze_vacancy_composition.load_data, written to municipal_archetypes.csv
ArchetypeCsv(df) ==
  LET kept == FilterPositiveTotal(df)
  IN [i \in 1..Len(kept) |->
        LET r == kept[i]
        IN [r EXCEPT
              !.share_market = Rat(r.for_rent + r.for_sale, r.s_total),
              !.share_tourism = Rat(r.vacation + r.secondary, r.s_total),
              !.share_system_failure = Rat(r.other_reason, r.s_total),
              !.archetype = classify_row(r.sigma)]]

LoadTable(sc, df) ==
  CASE sc = "generate_unlock_gif" -> FilterPositiveTotal(df)
    [] sc = "choropleth_archetypes" -> Relabel(ArchetypeCsv(df))
    [] OTHER -> df

Init ==
  /\ script \in Scripts
  /\ muni_df \in JsonTables
  /\ gdf \in (IF script \in {"export_unlock_json", "unlock_simulator"} THEN {<<>>}
              ELSE Shapes)
  /\ pc = "start"
  /\ idx_map = <<>> /\ dedup = <<>> /\ merged = <<>> /\ sim = <<>>
  /\ unlock = <<0, 1>> /\ alpha = 1
  /\ nat = NaN /\ report = NoReport /\ rows_in = 0
  /\ levels = <<>> /\ frames = <<>>
  /\ ClassIdle
  /\ text = <<>> /\ text2 = <<>> /\ key = <<>> /\ key2 = <<>>
  /\ rekey = <<>> /\ nidx = <<>> /\ npc = "idle"

\* the script reads its inputs
Load ==
  /\ pc = "start"
  /\ muni_df' = LoadTable(script, muni_df)
  /\ rows_in' = Len(muni_df)
  /\ pc' = "loaded"
  /\ UNCHANGED <<script, levels, frames, gdf, idx_map, dedup, merged, sim, unlock,
               alpha, nat, report>>
  /\ UNCHANGED <<nvars, cvars>>

\* ------------------------------------------------------------------------
\* One-to-one overrides
\* ------------------------------------------------------------------------
HasName(df, n) == \E i \in 1..Len(df) : df[i].name = n
HasLabel(df, l) == \E i \in 1..Len(df) : df[i].label = l

\* greek_to_idx[n]: the position (from 0) of the last row named n
PositionOf(df, n) == (CHOOSE i \in 1..Len(df) :
                        /\ df[i].name = n
                        /\ \A j \in 1..Len(df) : df[j].name = n => j <= i) - 1

\* df.loc[idx, "matched_name"] = gadm; df.loc[idx, "match_score"] = 100
\* (.loc addresses the row by label and adds a row for an unknown label)
SetByLabel(df, idx, gadm) ==
  IF HasLabel(df, idx)
    THEN [i \in 1..Len(df) |->
            IF df[i].label = idx
              THEN [df[i] EXCEPT !.matched_name = gadm, !.match_score = 100]
              ELSE df[i]]
    ELSE Append(df, [BlankRow EXCEPT !.label = idx, !.matched_name = gadm,
                                     !.match_score = 100])

RECURSIVE ApplyOverridesOne(_, _, _)
ApplyOverridesOne(df, names, overrides) ==
  IF overrides = <<>> THEN df
  ELSE LET gadm == Head(overrides)[1]
           greek == Head(overrides)[2]
       IN ApplyOverridesOne(
            IF HasName(names, greek)
              THEN SetByLabel(df, PositionOf(names, greek), gadm)
              ELSE df,
            names, Tail(overrides))

\* df["matched_name"] = df["Municipality"].map(greek_to_gadm)
MapOverridesOne(df, overrides) ==
  [i \in 1..Len(df) |->
     IF \E k \in 1..Len(overrides) : overrides[k][2] = df[i].name
       THEN [df[i] EXCEPT !.matched_name =
               overrides[CHOOSE k \in 1..Len(overrides) :
                           overrides[k][2] = df[i].name][1]]
       ELSE df[i]]

HasOverrideStep(sc) ==
  sc \in {"choropleth_municipalities", "generate_unlock_gif", "choropleth_archetypes"}
IsSimulatorMerge(sc) == sc \in {"unlock_simulator", "unlock_simulator_interactive"}

\* the one-to-one override block of prepare_dataframe, or the override map
\* of merge_with_shapes / merge_shapes; unlock_simulator reads the shapes
\* only here, in merge_with_shapes, after the scenario was written
OverrideOne ==
  /\ \/ pc = "loaded" /\ (HasOverrideStep(script) \/ script = "unlock_simulator_interactive")
     \/ pc = "simulated" /\ script = "unlock_simulator"
  /\ gdf' \in (IF script = "unlock_simulator" THEN Shapes ELSE {gdf})
  /\ muni_df' = IF HasOverrideStep(script)
                  THEN ApplyOverridesOne(muni_df, muni_df, OVER_ONE)
                  ELSE MapOverridesOne(muni_df, OVER_ONE)
  /\ pc' = IF HasOverrideStep(script) THEN "overridden" ELSE "aggregated"
  /\ UNCHANGED <<script, rows_in, levels, frames, idx_map, dedup, merged, sim, unlock, alpha, nat, report>>
  /\ UNCHANGED <<nvars, cvars>>

\* ------------------------------------------------------------------------
\* Many-to-one aggregation
\* ------------------------------------------------------------------------
InList(n, list) == \E k \in 1..Len(list) : list[k] = n

\* Series.sum(): missing values are skipped
RECURSIVE SumCount(_, _)
SumCount(rows, col) ==
  IF rows = <<>> THEN 0
  ELSE (IF Head(rows)[col] = NACount THEN 0 ELSE Head(rows)[col])
       + SumCount(Tail(rows), col)

\* (subset[col] * subset["s_total"]).sum()
RECURSIVE WeightedSum(_, _)
WeightedSum(rows, col) ==
  IF rows = <<>> THEN <<0, 1>>
  ELSE LET r == Head(rows)
           prod == IF r.s_total = NACount THEN NaN
                   ELSE RMul(r[col], IntR(r.s_total))
       IN IF IsNaN(prod) THEN WeightedSum(Tail(rows), col)
          ELSE RAdd(prod, WeightedSum(Tail(rows), col))

\* a plain mean of the column, ignoring the weights
Unweighted(rows, col) ==
  RDiv(WeightedSum([i \in 1..Len(rows) |-> [rows[i] EXCEPT !.s_total = 1]], col),
       IntR(Len(rows)))

weighted(rows, col) == RDiv(WeightedSum(rows, col), IntR(SumCount(rows, "s_total")))

AggName(gadm) == gadm \o <<" ", "(", "a", "g", "g", ")">>

\* the synthetic row of one many-to-one override, <<>> when it is skipped
AggRows(sc, df, gadm, greek_list) ==
  LET subset == SelectSeq(df, LAMBDA r : InList(r.name, greek_list))
      total == SumCount(subset, "s_total")
      base == [BlankRow EXCEPT !.name = AggName(gadm), !.matched_name = gadm,
                               !.match_score = 100, !.s_total = total]
  IN IF subset = <<>> THEN <<>>
     ELSE IF sc = "choropleth_municipalities" THEN
       IF total = 0 THEN <<>>
       ELSE << [base EXCEPT !.sigma = weighted(subset, "sigma")] >>
     ELSE IF sc = "generate_unlock_gif" THEN
       IF total <= 0 THEN <<>>
       ELSE << [base EXCEPT !.s_empty = SumCount(subset, "s_empty"),
                            !.sigma = Rat(SumCount(subset, "s_empty"), total)] >>
     ELSE \* choropleth_archetypes
       IF total = 0 THEN <<>>
       ELSE << [base EXCEPT
                  !.sigma = weighted(subset, "sigma"),
                  !.share_tourism = weighted(subset, "share_tourism"),
                  !.share_market = weighted(subset, "share_market"),
                  !.share_system_failure = weighted(subset, "share_system_failure"),
                  !.archetype = reclassify(weighted(subset, "sigma"),
                                           weighted(subset, "share_tourism"))] >>

RECURSIVE AllAggRows(_, _, _)
AllAggRows(sc, df, overrides) ==
  IF overrides = <<>> THEN <<>>
  ELSE AggRows(sc, df, Head(overrides)[1], Head(overrides)[2])
       \o AllAggRows(sc, df, Tail(overrides))

\* pd.concat([df, pd.DataFrame(extra_rows)], ignore_index=True)
ConcatAgg(df, extra) == IF extra = <<>> THEN df ELSE Relabel(df \o extra)

\* the many-to-one block of prepare_dataframe
AggregateMany ==
  /\ pc = "overridden"
  /\ muni_df' = ConcatAgg(muni_df, AllAggRows(script, muni_df, OVER_MANY))
  /\ pc' = "aggregated"
  /\ UNCHANGED <<script, rows_in, levels, frames, gdf, idx_map, dedup, merged, sim, unlock, alpha, nat, report>>
  /\ UNCHANGED <<nvars, cvars>>

\* ------------------------------------------------------------------------
\* Matcher
\* ------------------------------------------------------------------------
Max(a, b) == IF a >= b THEN a ELSE b

\* one row of the longest-common-subsequence table
RECURSIVE LcsRow(_, _, _, _)
LcsRow(prev, ch, b, acc) ==
  LET j == Len(acc) + 1
  IN IF j > Len(b) THEN acc
     ELSE LET diag == IF j = 1 THEN 0 ELSE prev[j - 1]
              left == IF j = 1 THEN 0 ELSE acc[j - 1]
          IN LcsRow(prev, ch, b,
                    Append(acc, IF ch = b[j] THEN diag + 1 ELSE Max(prev[j], left)))

RECURSIVE LcsFrom(_, _, _, _)
LcsFrom(a, b, i, prev) ==
  IF i > Len(a) THEN (IF Len(b) = 0 THEN 0 ELSE prev[Len(b)])
  ELSE LcsFrom(a, b, i + 1, LcsRow(prev, a[i], b, <<>>))

Lcs(a, b) == LcsFrom(a, b, 1, [j \in 1..Len(b) |-> 0])

\* fuzz.token_sort_ratio on two keys without whitespace:
\* int(round(100 * 2 * M / T)), 0 when one of them is empty
token_sort_ratio(s1, s2) ==
  IF s1 = s2 THEN 100
  ELSE IF s1 = <<>> \/ s2 = <<>> THEN 0
  ELSE LET n == 200 * Lcs(s1, s2)
           d == Len(s1) + Len(s2)
           q == n \div d
           r == n % d
       IN IF 2 * r < d THEN q
          ELSE IF 2 * r > d THEN q + 1
          ELSE IF q % 2 = 0 THEN q ELSE q + 1

\* process.extractOne(query, keys, scorer=fuzz.token_sort_ratio): the first
\* key of the highest score; position in the index and score
extractOne(query, idx) ==
  LET best == CHOOSE i \in 1..Len(idx) :
                /\ \A j \in 1..Len(idx) :
                     token_sort_ratio(query, idx[j][1]) <= token_sort_ratio(query, idx[i][1])
                /\ \A j \in 1..(i - 1) :
                     token_sort_ratio(query, idx[j][1]) < token_sort_ratio(query, idx[i][1])
  IN <<best, token_sort_ratio(query, idx[best][1])>>

\* match_names has the "if not cand_norms: continue" guard
IsGuarded(sc) == sc \in {"choropleth_municipalities", "generate_unlock_gif"}

\* match_names on one target: <<matched name, score>>, <<NAName, NAScore>> if
\* the target gets no entry
MatchOne(target, idx) ==
  LET norm == normalize(target)
  IN IF HasKey(idx, norm) THEN <<Lookup(idx, norm), 100>>
     ELSE IF idx = <<>> THEN <<NAName, NAScore>>
     ELSE LET e == extractOne(norm, idx) IN <<idx[e[1]][2], e[2]>>

\* extractOne on an empty list of keys returns no pair to unpack
MatchRaises(sc, targets, idx) ==
  /\ ~IsGuarded(sc)
  /\ idx = <<>>
  /\ targets # <<>>

Remaining(df) == SelectSeq(df, LAMBDA r : r.matched_name = NAName)

\* df.loc[remaining.index, "matched_name"/"match_score"] = matches of the names
AssignMatches(sc, df, idx) ==
  [i \in 1..Len(df) |->
     IF df[i].matched_name = NAName
       THEN LET m == MatchOne(df[i].name, idx)
            IN [df[i] EXCEPT !.matched_name = m[1],
                             !.match_score = IF IsSimulatorMerge(sc) THEN NAScore
                                             ELSE m[2]]
       ELSE df[i]]

\* gdf[gdf["NAME_3"] != "Athos"]
gadm_filtered(shapes) == SelectSeq(shapes, LAMBDA n : n # Athos)

\* idx_map = build_index(gdf["NAME_3"])
BuildIndex ==
  /\ pc = "aggregated"
  /\ idx_map' = build_index(gadm_filtered(gdf))
  /\ pc' = "indexed"
  /\ UNCHANGED <<script, rows_in, levels, frames, gdf, muni_df, dedup, merged, sim, unlock, alpha, nat, report>>
  /\ UNCHANGED <<nvars, cvars>>

\* match_names on the rows that no override matched
MatchRemaining ==
  /\ pc = "indexed"
  /\ IF MatchRaises(script, Remaining(muni_df), idx_map)
       THEN /\ pc' = "raised"
            /\ UNCHANGED muni_df
       ELSE /\ muni_df' = AssignMatches(script, muni_df, idx_map)
            /\ pc' = "matched"
  /\ UNCHANGED <<script, rows_in, levels, frames, gdf, idx_map, dedup, merged, sim, unlock, alpha, nat, report>>
  /\ UNCHANGED <<nvars, cvars>>

\* ------------------------------------------------------------------------
\* Deduplicator
\* ------------------------------------------------------------------------
Perms(n) == {f \in [1..n -> 1..n] : Distinct(f)}

\* the orders in which ascending sorting may leave the rows
SortedAscending(df) ==
  { [i \in 1..Len(df) |-> df[p[i]]] :
      p \in {q \in Perms(Len(df)) :
               \A i, j \in 1..Len(df) :
                 i < j => df[q[i]].match_score <= df[q[j]].match_score} }

\* sort_values("match_score", ascending=False): the default sort is not
\* stable, so rows of equal score may come out in any order; the rows with a
\* missing score are appended last, in the order of the table
SortedByScore(df) ==
  { [i \in 1..Len(df) |-> df[p[i]]] :
      p \in {q \in Perms(Len(df)) :
               \A i, j \in 1..Len(df) :
                 i < j => /\ df[q[i]].match_score >= df[q[j]].match_score
                          /\ df[q[i]].match_score = NAScore => q[i] < q[j]} }

\* drop_duplicates(subset=["matched_name"]): the first row of each value stays
\* (missing values count as one value)
drop_duplicates(df) ==
  LET keep == {i \in 1..Len(df) :
                 \A j \in 1..(i - 1) : df[j].matched_name # df[i].matched_name}
      F[i \in 0..Len(df)] ==
        IF i = 0 THEN <<>>
        ELSE IF i \in keep THEN Append(F[i - 1], df[i]) ELSE F[i - 1]
  IN F[Len(df)]

\* the sort and drop_duplicates of prepare_dataframe
Dedup ==
  /\ pc = "matched"
  /\ HasOverrideStep(script)
  /\ \E sorted \in SortedByScore(muni_df) : dedup' = drop_duplicates(sorted)
  /\ pc' = "deduped"
  /\ UNCHANGED <<script, rows_in, levels, frames, gdf, muni_df, idx_map, merged, sim, unlock, alpha, nat, report>>
  /\ UNCHANGED <<nvars, cvars>>

\* ------------------------------------------------------------------------
\* Joiner
\* ------------------------------------------------------------------------
\* gdf.merge(right, left_on="NAME_3", right_on="matched_name", how="left")
RECURSIVE LeftMerge(_, _)
LeftMerge(shapes, right) ==
  IF shapes = <<>> THEN <<>>
  ELSE LET hits == SelectSeq(right, LAMBDA r : r.matched_name = Head(shapes))
           rows == IF hits = <<>> THEN <<BlankRow>> ELSE hits
       IN [i \in 1..Len(rows) |-> [NAME_3 |-> Head(shapes)] @@ rows[i]]
          \o LeftMerge(Tail(shapes), right)

\* merged.dropna(subset=[...]) of the script
DropNa(sc, rows) ==
  CASE sc \in {"choropleth_municipalities", "generate_unlock_gif"} ->
         SelectSeq(rows, LAMBDA r : ~IsNaN(r.sigma))
    [] sc = "choropleth_archetypes" ->
         SelectSeq(rows, LAMBDA r : r.archetype # "NA")
    [] OTHER -> rows

\* a column of a table
Column(rows, col) == [i \in 1..Len(rows) |-> rows[i][col]]

\* the print calls that follow the merge: choropleth_municipalities prints the
\* matched count and both unmatched lists, choropleth_archetypes the number
\* of joined rows, the other scripts nothing
PrintReport(sc, df_dedup, merged_all) ==
  CASE sc = "choropleth_municipalities" ->
         [printed |-> "counts and lists",
          matched_count |-> Len(SelectSeq(merged_all, LAMBDA r : ~IsNaN(r.sigma))),
          unmatched_json |->
            Column(SelectSeq(df_dedup, LAMBDA r : r.matched_name = NAName), "name"),
          unmatched_shapes |->
            Column(SelectSeq(merged_all, LAMBDA r : IsNaN(r.sigma)), "NAME_3")]
    [] sc = "choropleth_archetypes" ->
         [NoReport EXCEPT !.printed = "matched count",
                          !.matched_count = Len(DropNa(sc, merged_all))]
    [] OTHER -> NoReport

\* the merge onto the polygons (and the dropna where the script has one)
Merge ==
  /\ \/ pc = "deduped"
     \/ pc = "matched" /\ IsSimulatorMerge(script)
  /\ LET merged_all == LeftMerge(gadm_filtered(gdf),
                          IF IsSimulatorMerge(script) THEN muni_df ELSE dedup)
     IN /\ merged' = DropNa(script, merged_all)
        /\ report' = PrintReport(script, dedup, merged_all)
  /\ pc' = "merged"
  /\ UNCHANGED <<script, rows_in, levels, frames, gdf, muni_df, idx_map, dedup, sim, unlock, alpha, nat>>
  /\ UNCHANGED <<nvars, cvars>>

\* ------------------------------------------------------------------------
\* Unlock simulators
\* ------------------------------------------------------------------------
Unlocks == {<<0, 1>>, <<1, 5>>}
Alphas == {1, 2}

\* the unlock values a command line can carry: also 120 %
UnlockArgs == Unlocks \cup {<<6, 5>>}

\* the unlock values a script is run with: unlock_simulator_interactive
\* loops over its own UNLOCK_LEVELS
UnlocksOf(sc) == IF sc = "unlock_simulator_interactive" THEN Unlocks ELSE UnlockArgs

\* main of export_unlock_json: unlock_pct < 0 or unlock_pct > 100 raises
RejectsUnlock(sc, u) ==
  sc = "export_unlock_json" /\ (RLt(u, <<0, 1>>) \/ RLt(<<1, 1>>, u))

\* ALPHA = 0.4 of unlock_simulator_interactive
ALPHA == <<2, 5>>

\* Series.clip(upper=1 - eps): every fraction below 1 the model can form lies
\* below the bound, so exactly the values >= 1 are clipped
ClipBelowOne(x, bound) == IF RLe(IntR(1), x) THEN bound ELSE x

\* compute_friction: 1 / (1 - sigma.clip(upper=1 - 1e-9))
compute_friction(sigma) ==
  RInv(RSub(IntR(1), ClipBelowOne(sigma, <<999999999, 1000000000>>)))

\* classify (sigma only) of simulate_unlock
classify(sig) ==
  IF RLt(<<1, 2>>, sig) THEN "PROBLEMATIC"
  ELSE IF RLe(<<1, 4>>, sig) /\ RLe(sig, <<1, 2>>) THEN "TRANSITIONAL"
  ELSE "HEALTHY"

\* simulate_unlock with the two archetype columns exchanged
simulate_unlock_swapped(r, u, a) ==
  LET F_baseline == compute_friction(r.sigma)
      sigma_new == RMul(r.sigma, RSub(IntR(1), u))
      F_new == compute_friction(sigma_new)
      ratio == RPow(RDiv(F_new, F_baseline), a)
  IN [name |-> r.name, sigma |-> r.sigma, s_total |-> r.s_total,
      sigma_new |-> sigma_new, F_new |-> F_new,
      price_change_pct |-> RMul(RSub(ratio, IntR(1)), IntR(100)),
      archetype_base |-> classify(sigma_new), archetype_sim |-> classify(r.sigma)]

\* unlock_simulator.simulate_unlock on one row
simulate_unlock(r, u, a) ==
  LET F_baseline == compute_friction(r.sigma)
      sigma_new == RMul(r.sigma, RSub(IntR(1), u))
      F_new == compute_friction(sigma_new)
      ratio == RPow(RDiv(F_new, F_baseline), a)
  IN [name |-> r.name, sigma |-> r.sigma, s_total |-> r.s_total,
      sigma_new |-> sigma_new, F_new |-> F_new,
      price_change_pct |-> RMul(RSub(ratio, IntR(1)), IntR(100)),
      archetype_base |-> classify(r.sigma), archetype_sim |-> classify(sigma_new)]

\* export_unlock_json.apply_unlock on one record (unlock_pct = 100 * u)
apply_unlock(r, u) ==
  LET factor == RSub(IntR(1), u)
      s_empty_new == RMul(IntR(r.s_empty), factor)
      sigma_new == IF r.s_total > 0 THEN RDiv(s_empty_new, IntR(r.s_total))
                   ELSE <<0, 1>>
      F_new == IF RLt(sigma_new, IntR(1)) THEN RInv(RSub(IntR(1), sigma_new))
               ELSE Inf
      F_old == r.F
      price_ratio == IF F_old # <<0, 1>> THEN RDiv(F_new, F_old) ELSE <<1, 1>>
  IN [name |-> r.name, sigma |-> r.sigma, s_total |-> r.s_total,
      sigma_new |-> sigma_new, F_new |-> F_new,
      price_change_pct |-> RMul(RSub(price_ratio, IntR(1)), IntR(100)),
      archetype_base |-> "NA", archetype_sim |-> "NA"]

\* unlock_simulator_interactive.add_unlock_layer on one joined row
add_unlock_layer(r, u) ==
  LET sigma_new == RMul(r.sigma, RSub(IntR(1), u))
      F_new == RInv(RSub(IntR(1), ClipBelowOne(sigma_new, <<999999, 1000000>>)))
      slope == RDiv(RMul(u, r.sigma),
                    RSub(IntR(1), ClipBelowOne(r.sigma, <<999999, 1000000>>)))
  IN [name |-> r.name, sigma |-> r.sigma, s_total |-> r.s_total,
      sigma_new |-> sigma_new, F_new |-> F_new,
      price_change_pct |-> RMul(RMul(RNeg(ALPHA), slope), IntR(100)),
      archetype_base |-> "NA", archetype_sim |-> "NA"]

SimulateRows(sc, rows, u, a) ==
  [i \in 1..Len(rows) |->
     CASE sc = "unlock_simulator" -> simulate_unlock(rows[i], u, a)
       [] sc = "export_unlock_json" -> apply_unlock(rows[i], u)
       [] OTHER -> add_unlock_layer(rows[i], u)]

RECURSIVE SumRat(_)
SumRat(xs) == IF xs = <<>> THEN <<0, 1>> ELSE RAdd(Head(xs), SumRat(Tail(xs)))

\* the mean of the per-record sigma_new values
MeanOfSigmaNew(recs, u) ==
  RDiv(SumRat([i \in 1..Len(recs) |-> apply_unlock(recs[i], u).sigma_new]),
       IntR(Len(recs)))

\* national sigma_unlocked of apply_unlock: the totals accumulated over the
\* records, 0.0 when the total stock is not positive
sigma_nat(recs, u) ==
  LET national_tot_s == SumCount(recs, "s_total")
      national_tot_empty ==
        SumRat([i \in 1..Len(recs) |->
                  RMul(IntR(recs[i].s_empty), RSub(IntR(1), u))])
  IN IF national_tot_s > 0 THEN RDiv(national_tot_empty, IntR(national_tot_s))
     ELSE <<0, 1>>

\* the table a scenario is computed from
ScenarioInput == IF script = "unlock_simulator_interactive" THEN merged ELSE muni_df

\* one unlock scenario: simulate_unlock, apply_unlock or add_unlock_layer.
\* add_unlock_layer is called for one level after the other; the two
\* command-line scripts are run again on the same file with another unlock.
\* The square of a ratio against the clamp's 1e9 is beyond the integers of
\* the checker, so a table holding a sigma >= 1 is run with alpha = 1.
Simulate ==
  /\ \/ pc \in {"loaded", "simulated"} /\ script = "unlock_simulator"
     \/ pc \in {"loaded", "done"} /\ script = "export_unlock_json"
     \/ pc \in {"merged", "done"} /\ script = "unlock_simulator_interactive"
  /\ \E u \in UnlocksOf(script), a \in (IF script = "unlock_simulator" THEN Alphas ELSE {1}) :
       IF RejectsUnlock(script, u) \/ (script = "export_unlock_json" /\ muni_df = <<>>)
         THEN /\ pc' = "raised"
              /\ UNCHANGED <<sim, unlock, alpha, nat>>
         ELSE /\ a = 1 \/ \A i \in 1..Len(ScenarioInput) :
                               ~RLe(IntR(1), ScenarioInput[i].sigma)
              /\ unlock' = u
              /\ alpha' = a
              /\ sim' = SimulateRows(script, ScenarioInput, u, a)
              /\ nat' = IF script = "export_unlock_json" THEN sigma_nat(muni_df, u)
                        ELSE nat
              /\ pc' = IF script = "unlock_simulator" THEN "simulated" ELSE "done"
  /\ UNCHANGED <<script, rows_in, levels, frames, gdf, muni_df, idx_map, dedup, merged, report>>
  /\ UNCHANGED <<nvars, cvars>>

\* generate_unlock_gif.national_sigma(df, empty_col)
national_sigma(df, empty_col) ==
  LET s_total == SumCount(df, "s_total")
      s_empty == SumRat([i \in 1..Len(df) |-> df[i][empty_col]])
  IN IF s_total <= 0 THEN NaN ELSE RDiv(s_empty, IntR(s_total))

MaxFrames == 2

\* the lists of levels generate_frames is called with: distinct levels (main
\* takes them from a range), in any order
LevelLists ==
  UNION { {l \in [1..k -> UnlocksOf("generate_unlock_gif")] : Distinct(l)} :
          k \in 1..MaxFrames }

\* one pass of the loop of generate_frames with the columns of every pass
\* taken from the columns of the pass before
FramePassCompounding(df, u) ==
  [i \in 1..Len(df) |->
     LET sigma == IF "sigma_new" \in DOMAIN df[i] THEN df[i].sigma_new ELSE df[i].sigma
         s_empty == IF "s_empty_new" \in DOMAIN df[i] THEN df[i].s_empty_new
                    ELSE IntR(df[i].s_empty)
     IN [sigma_new |-> RMul(sigma, RSub(IntR(1), u)),
         s_empty_new |-> RMul(s_empty, RSub(IntR(1), u))] @@ df[i]]

\* one pass of the loop of generate_frames: the two scenario columns are
\* assigned on the joined table itself
FramePass(df, u) ==
  [i \in 1..Len(df) |->
     [sigma_new |-> RMul(df[i].sigma, RSub(IntR(1), u)),
      s_empty_new |-> RMul(IntR(df[i].s_empty), RSub(IntR(1), u))] @@ df[i]]

\* the joined table after the passes for the levels ls
RECURSIVE TableAfter(_, _)
TableAfter(df, ls) ==
  IF ls = <<>> THEN df ELSE TableAfter(FramePass(df, Head(ls)), Tail(ls))

\* the frames appended by the passes for the levels ls: what each picture
\* shows (the level of its title, the national sigma, the sigma_new column)
RECURSIVE FramesOf(_, _)
FramesOf(df, ls) ==
  IF ls = <<>> THEN <<>>
  ELSE LET framed == FramePass(df, Head(ls))
       IN <<[pct |-> Head(ls),
             nat_new |-> national_sigma(framed, "s_empty_new"),
             sigma_new |-> Column(framed, "sigma_new")]>>
          \o FramesOf(framed, Tail(ls))

\* generate_frames(merged, levels, tmpdir)
GenerateFrames ==
  /\ script = "generate_unlock_gif"
  /\ pc = "merged"
  /\ \E ls \in LevelLists :
       /\ levels' = ls
       /\ frames' = FramesOf(merged, ls)
       /\ merged' = TableAfter(merged, ls)
       /\ nat' = frames'[Len(ls)].nat_new
       /\ unlock' = ls[Len(ls)]
  /\ pc' = "done"
  /\ UNCHANGED <<script, rows_in, gdf, muni_df, idx_map, dedup, sim, alpha, report>>
  /\ UNCHANGED <<nvars, cvars>>

\* ------------------------------------------------------------------------
\* Specifications
\* ------------------------------------------------------------------------
Next ==
  \/ Load
  \/ OverrideOne
  \/ AggregateMany
  \/ BuildIndex
  \/ MatchRemaining
  \/ Dedup
  \/ Merge
  \/ Simulate
  \/ GenerateFrames

Spec == Init /\ [][Next]_vars

NormNext ==
  \/ Normalize
  \/ Renormalize
  \/ BuildIndexOfTexts

SpecNorm == NormInit /\ [][NormNext]_vars

\* ------------------------------------------------------------------------
\* The archetype classifiers on pairs of records
\* ------------------------------------------------------------------------
SigmaSteps == 24

\* sigma = 0, 0.05, 0.10, ... : every threshold of a classifier is on the grid
SigmaGrid == {Rat(k, 20) : k \in 0..SigmaSteps}

\* share_tourism below, at and above the 0.3 of reclassify
TourismGrid == {<<0, 1>>, <<3, 10>>, <<2, 5>>}

\* choropleth_eu_benchmark.classify_eu
classify_eu(sigma) ==
  IF RLt(sigma, <<1, 10>>) THEN "European Efficient"
  ELSE IF RLt(sigma, <<3, 20>>) THEN "European Normal"
  ELSE IF RLt(sigma, <<1, 5>>) THEN "Mediterranean Acceptable"
  ELSE IF RLt(sigma, <<3, 10>>) THEN "Elevated Friction"
  ELSE IF RLt(sigma, <<1, 2>>) THEN "Structural Dysfunction"
  ELSE "Market Collapse"

ClassInit ==
  /\ csigma \in [1..2 -> SigmaGrid]
  /\ ctourism \in [1..2 -> TourismGrid]
  /\ clabel = NoLabels
  /\ cpc = "start"
  /\ text = <<>> /\ text2 = <<>> /\ key = <<>> /\ key2 = <<>>
  /\ rekey = <<>> /\ nidx = <<>> /\ npc = "idle"
  /\ script = "none" /\ pc = "idle"
  /\ gdf = <<>> /\ muni_df = <<>> /\ idx_map = <<>> /\ dedup = <<>>
  /\ merged = <<>> /\ sim = <<>> /\ unlock = <<0, 1>> /\ alpha = 1
  /\ nat = NaN /\ report = NoReport /\ rows_in = 0
  /\ levels = <<>> /\ frames = <<>>

\* df.apply(classify_row, axis=1) of load_data
ClassifyRow ==
  /\ cpc = "start"
  /\ clabel' = [clabel EXCEPT !.row = [i \in 1..2 |-> classify_row(csigma[i])]]
  /\ cpc' = "row"
  /\ UNCHANGED <<csigma, ctourism, nvars, pvars>>

\* the classify_eu calls of choropleth_eu_benchmark
ClassifyEu ==
  /\ cpc = "row"
  /\ clabel' = [clabel EXCEPT !.eu = [i \in 1..2 |-> classify_eu(csigma[i])]]
  /\ cpc' = "eu"
  /\ UNCHANGED <<csigma, ctourism, nvars, pvars>>

\* reclassify of choropleth_archetypes
Reclassify ==
  /\ cpc = "eu"
  /\ clabel' = [clabel EXCEPT
                  !.re = [i \in 1..2 |-> reclassify(csigma[i], ctourism[i])]]
  /\ cpc' = "re"
  /\ UNCHANGED <<csigma, ctourism, nvars, pvars>>

\* classify of simulate_unlock (the tourism share is passed and not used)
ClassifySim ==
  /\ cpc = "re"
  /\ clabel' = [clabel EXCEPT !.sim = [i \in 1..2 |-> classify(csigma[i])]]
  /\ cpc' = "done"
  /\ UNCHANGED <<csigma, ctourism, nvars, pvars>>

ClassNext ==
  \/ ClassifyRow
  \/ ClassifyEu
  \/ Reclassify
  \/ ClassifySim

SpecClass == ClassInit /\ [][ClassNext]_vars

\* ------------------------------------------------------------------------
\* Properties
\* ------------------------------------------------------------------------
AfterDedup == HasOverrideStep(script) /\ pc \in {"deduped", "merged"}
AfterMatch ==
  /\ HasOverrideStep(script) \/ IsSimulatorMerge(script)
  /\ pc \in {"matched", "deduped", "merged", "done"}

\* C1: after the sort by match_score and the drop of duplicates, no two rows
\* share a matched_name, and for every matched_name carried by some row of the
\* table (plain, override or synthetic) the row that stays has the highest
\* match_score of the rows that carried it.
C1_DedupKeepsBestScore ==
  AfterDedup =>
    /\ \A i, j \in 1..Len(dedup) :
         i # j => dedup[i].matched_name # dedup[j].matched_name
    /\ \A i \in 1..Len(muni_df) :
         \E j \in 1..Len(dedup) :
           /\ dedup[j].matched_name = muni_df[i].matched_name
           /\ dedup[j].match_score >= muni_df[i].match_score

\* two rows of different score competed for one candidate and one was dropped
C1_Witness ==
  /\ pc = "deduped"
  /\ \E i, j \in 1..Len(muni_df) :
       /\ muni_df[i].matched_name = muni_df[j].matched_name
       /\ muni_df[i].matched_name # NAName
       /\ muni_df[i].match_score < muni_df[j].match_score
  /\ Len(dedup) < Len(muni_df)

\* C2: in every joining script the joined table holds at most one row per
\* candidate key, also when several source names resolve to one candidate.
C2_OneRowPerCandidate ==
  pc \in {"merged", "done"} =>
    \A i, j \in 1..Len(merged) : i # j => merged[i].NAME_3 # merged[j].NAME_3

\* C3: every row whose name is the source of a one-to-one override ends with
\* matched_name = the override's candidate key (and score 100 where the script
\* keeps a score), whatever the index holds.
C3_OverrideOneWins ==
  AfterMatch =>
    \A k \in 1..Len(OVER_ONE) : \A i \in 1..Len(muni_df) :
      muni_df[i].name = OVER_ONE[k][2] =>
        /\ muni_df[i].matched_name = OVER_ONE[k][1]
        /\ HasOverrideStep(script) => muni_df[i].match_score = 100

\* C4: with an empty candidate index match_names raises nothing and leaves
\* every name it was given without a match.
C4_EmptyIndexLeavesUnmatched ==
  (pc \in {"matched", "raised"} /\ idx_map = <<>>) =>
    /\ pc # "raised"
    /\ \A i \in 1..Len(muni_df) :
         (\A k \in 1..Len(OVER_ONE) : muni_df[i].name # OVER_ONE[k][2])
           /\ muni_df[i].name # NAName /\ muni_df[i].match_score # 100
           => muni_df[i].matched_name = NAName

AZ09 == {"a","b","c","d","e","f","g","h","i","j","k","l","m","n","o","p","q",
         "r","s","t","u","v","w","x","y","z","0","1","2","3","4","5","6","7",
         "8","9"}

\* C5: normalize applied twice equals normalize applied once, and a key holds
\* only the characters a-z and 0-9.
C5_NormalizeIdempotent ==
  npc \in {"renormalized", "indexed"} =>
    /\ rekey = key
    /\ \A i \in 1..Len(key) : key[i] \in AZ09

\* a text that normalize changed into a non-empty key, normalized again
C5_Witness ==
  /\ npc = "renormalized"
  /\ key # <<>>
  /\ key # text
  /\ Len(key) > Len(text)

\* the letter a character is a case or accent variant of
BaseLetter(ch) ==
  CASE ch \in {"Alpha", "alpha", "alpha_t", "Alpha_t"} -> "alpha"
    [] ch \in {"Theta", "theta"} -> "theta"
    [] ch \in {"A", "a"} -> "a"
    [] OTHER -> ch

SameBase(t1, t2) ==
  /\ Len(t1) = Len(t2)
  /\ \A i \in 1..Len(t1) : BaseLetter(t1[i]) = BaseLetter(t2[i])

\* C6: two names that differ only in letter case or in accent marks on the
\* same base letters normalize to the same key.
C6_CaseAndAccentInsensitive ==
  (npc = "normalized" /\ SameBase(text, text2)) => key = key2

\* C7: a source name whose key is empty gets no candidate and no score from
\* match_names, for any non-empty index.
C7_EmptyKeySkipped ==
  (pc = "matched" /\ idx_map # <<>>) =>
    \A i \in 1..Len(muni_df) :
      (muni_df[i].name # NAName /\ normalize(muni_df[i].name) = <<>>) =>
        /\ muni_df[i].matched_name = NAName
        /\ muni_df[i].match_score = NAScore

\* the first name of the list that normalizes to k
FirstWithKey(names, k) ==
  names[CHOOSE i \in 1..Len(names) :
          /\ normalize(names[i]) = k
          /\ \A j \in 1..(i - 1) : normalize(names[j]) # k]

\* C8: the index maps each non-empty key of the input to the first name in
\* input order that normalizes to it; the empty key is no key of the index,
\* every stored name normalizes to its key and no key is stored twice.
C8_FirstNameWins ==
  npc = "indexed" =>
    LET names == <<text, text2>>
    IN /\ \A e \in 1..Len(nidx) :
            /\ nidx[e][1] # <<>>
            /\ normalize(nidx[e][2]) = nidx[e][1]
            /\ nidx[e][2] = FirstWithKey(names, nidx[e][1])
            /\ \A f \in 1..Len(nidx) : nidx[f][1] = nidx[e][1] => f = e
       /\ \A i \in 1..2 :
            normalize(names[i]) # <<>> =>
              \E e \in 1..Len(nidx) : nidx[e][1] = normalize(names[i])

\* a later, different name with the key of an earlier one was shadowed
C8_Witness ==
  /\ npc = "indexed"
  /\ text # text2
  /\ key = key2
  /\ key # <<>>
  /\ nidx = << <<key, text>> >>

\* the rows of the table named by a many-to-one override, and the rows that
\* carry the name of its synthetic row
Constituents(greek_list) ==
  SelectSeq(muni_df, LAMBDA r : \E k \in 1..Len(greek_list) : r.name = greek_list[k])
Synthetic(gadm) ==
  SelectSeq(muni_df, LAMBDA r : r.name = gadm \o <<" ", "(", "a", "g", "g", ")">>)

RECURSIVE IntSum(_)
IntSum(s) == IF s = <<>> THEN 0 ELSE Head(s) + IntSum(Tail(s))

RECURSIVE RatSum(_)
RatSum(s) == IF s = <<>> THEN <<0, 1>> ELSE RAdd(Head(s), RatSum(Tail(s)))

ColSum(rows, col) == IntSum([i \in 1..Len(rows) |-> rows[i][col]])

\* sum of ratio_i * s_total_i over the rows that carry weight, over the sum
\* of s_total_i
WeightedMean(rows, col) ==
  LET w == SelectSeq(rows, LAMBDA r : r.s_total > 0)
  IN RDiv(RatSum([i \in 1..Len(w) |-> RMul(w[i][col], IntR(w[i].s_total))]),
          IntR(ColSum(rows, "s_total")))

AfterAggregate ==
  /\ HasOverrideStep(script)
  /\ pc \in {"aggregated", "indexed", "matched", "raised", "deduped", "merged"}

Aggregable(greek_list) ==
  /\ Constituents(greek_list) # <<>>
  /\ ColSum(Constituents(greek_list), "s_total") > 0

\* C9 (as stated): for each many-to-one override whose constituents exist
\* with a positive summed s_total there is exactly one synthetic row, matched
\* to the override's candidate with score 100, whose s_total, s_empty and
\* breakdown counts are the constituents' sums and whose sigma is the
\* s_total-weighted mean of the constituents' sigmas.
C9_SyntheticRowSumsAllCounts ==
  AfterAggregate =>
    \A k \in 1..Len(OVER_MANY) :
      LET cons == Constituents(OVER_MANY[k][2])
          syn == Synthetic(OVER_MANY[k][1])
      IN Aggregable(OVER_MANY[k][2]) =>
           /\ Len(syn) = 1
           /\ syn[1].matched_name = OVER_MANY[k][1]
           /\ syn[1].match_score = 100
           /\ \A col \in {"s_total", "s_empty", "for_rent", "for_sale",
                          "vacation", "secondary", "other_reason"} :
                syn[1][col] = ColSum(cons, col)
           /\ syn[1].sigma = WeightedMean(cons, "sigma")

\* C9 (amended): exactly one synthetic row, matched to the override's
\* candidate with score 100, whose s_total is the constituents' sum.  Its
\* sigma is the s_total-weighted mean of the constituents' sigmas in
\* choropleth_municipalities and choropleth_archetypes (which weights the three
\* shares the same way) and sum(s_empty) / sum(s_total) in generate_unlock_gif,
\* the only one of the three that also sums s_empty; no synthetic row carries
\* the breakdown counts.
C9_SyntheticRowAggregates ==
  AfterAggregate =>
    \A k \in 1..Len(OVER_MANY) :
      LET cons == Constituents(OVER_MANY[k][2])
          syn == Synthetic(OVER_MANY[k][1])
      IN Aggregable(OVER_MANY[k][2]) =>
           /\ Len(syn) = 1
           /\ syn[1].matched_name = OVER_MANY[k][1]
           /\ syn[1].match_score = 100
           /\ syn[1].s_total = ColSum(cons, "s_total")
           /\ \A col \in {"for_rent", "for_sale", "vacation", "secondary",
                          "other_reason"} : syn[1][col] = NACount
           /\ IF script = "generate_unlock_gif"
                THEN /\ syn[1].s_empty = ColSum(cons, "s_empty")
                     /\ syn[1].sigma = Rat(ColSum(cons, "s_empty"),
                                           ColSum(cons, "s_total"))
                ELSE /\ syn[1].s_empty = NACount
                     /\ syn[1].sigma = WeightedMean(cons, "sigma")
           /\ script = "choropleth_archetypes" =>
                \A col \in {"share_tourism", "share_market",
                            "share_system_failure"} :
                  syn[1][col] = WeightedMean(cons, col)

\* sigmas 0.2 and 0.4 with s_total 100 each were aggregated into sigma 0.30
C9_Witness ==
  /\ script = "choropleth_municipalities"
  /\ pc = "aggregated"
  /\ \E i, j \in 1..Len(muni_df) :
       /\ muni_df[i].name = SAMIS /\ muni_df[j].name = LIXOURIOU
       /\ muni_df[i].sigma = <<1, 5>> /\ muni_df[j].sigma = <<2, 5>>
       /\ muni_df[i].s_total = 100 /\ muni_df[j].s_total = 100
  /\ \E n \in 1..Len(muni_df) :
       /\ muni_df[n].matched_name = Cephalonia
       /\ muni_df[n].match_score = 100
       /\ muni_df[n].s_total = 200
       /\ muni_df[n].sigma = <<3, 10>>

\* C10: at unlock 0 every simulated record keeps its baseline sigma and has
\* a price change of exactly 0.
C10_ZeroUnlockIsNoOp ==
  (sim # <<>> /\ unlock = <<0, 1>>) =>
    \A i \in 1..Len(sim) :
      ~IsNaN(sim[i].sigma) =>
        /\ sim[i].sigma_new = sim[i].sigma
        /\ sim[i].price_change_pct = <<0, 1>>

\* a locked share of the range the price model is stated for
InUnitRange(sigma) == RLe(<<0, 1>>, sigma) /\ RLt(sigma, <<1, 1>>)

\* C11: for a fixed alpha and a record with 0 <= sigma < 1 the price change
\* of a scenario is never positive, and of two scenarios of the same table
\* the one with the larger unlock has the smaller or equal price change.
C11_PriceChangeMonotone ==
  [][\A i \in 1..Len(sim') :
       InUnitRange(sim'[i].sigma) =>
         /\ RLe(sim'[i].price_change_pct, <<0, 1>>)
         /\ (Len(sim) = Len(sim') /\ alpha' = alpha) =>
              /\ RLe(unlock, unlock') =>
                   RLe(sim'[i].price_change_pct, sim[i].price_change_pct)
              /\ RLe(unlock', unlock) =>
                   RLe(sim[i].price_change_pct, sim'[i].price_change_pct)]_vars

\* the records a national figure is taken over
NationalSet == IF script = "generate_unlock_gif" THEN merged ELSE muni_df

AfterNational ==
  /\ script \in {"export_unlock_json", "generate_unlock_gif"}
  /\ pc = "done"

\* C12: the national locked share reported for an unlock u is
\* sum(s_empty_i * (1 - u)) / sum(s_total_i) over the records of the set.
C12_NationalIsRatioOfSums ==
  (AfterNational /\ ColSum(NationalSet, "s_total") > 0) =>
    nat = RDiv(RatSum([i \in 1..Len(NationalSet) |->
                         RMul(IntR(NationalSet[i].s_empty), RSub(<<1, 1>>, unlock))]),
               IntR(ColSum(NationalSet, "s_total")))

\* a national share was reported for two records of different size, and it
\* differs from the mean of their sigma_new
C12_Witness ==
  /\ script = "export_unlock_json"
  /\ pc = "done"
  /\ unlock = <<1, 5>>
  /\ Len(sim) = 2
  /\ sim[1].s_total > 0 /\ sim[2].s_total > 0 /\ sim[1].s_total # sim[2].s_total
  /\ ~IsNaN(nat)
  /\ nat # RDiv(RAdd(sim[1].sigma_new, sim[2].sigma_new), <<2, 1>>)

RECURSIVE IntPow(_, _)
IntPow(b, k) == IF k = 0 THEN 1 ELSE b * IntPow(b, k - 1)

\* x = r ^ (al[1] / al[2]) for fractions in lowest terms and an exponent in
\* lowest terms: x = t ^ al[1] and r = t ^ al[2] for one fraction t = a / b
\* (no fifth power of a number above 73 is a value of the model)
IsPower(x, r, al) ==
  /\ IsFinite(x) /\ IsFinite(r)
  /\ \E a, b \in 0..73 :
       /\ IntPow(a, al[1]) = x[1] /\ IntPow(b, al[1]) = x[2]
       /\ IntPow(a, al[2]) = r[1] /\ IntPow(b, al[2]) = r[2]

\* the elasticity a scenario of the script is computed with
Elasticity == IF script = "unlock_simulator_interactive" THEN ALPHA ELSE <<alpha, 1>>

\* C13: for a record with 0 <= sigma < 1 every simulator yields
\* sigma_new = sigma * (1 - u), F_new = 1 / (1 - sigma_new) and
\* price_change_pct = ((F_new / F_baseline) ^ alpha - 1) * 100 with
\* F_baseline = 1 / (1 - sigma).
C13_PriceModelFormulas ==
  sim # <<>> =>
    \A i \in 1..Len(sim) :
      InUnitRange(sim[i].sigma) =>
        LET sigma_new == RMul(sim[i].sigma, RSub(<<1, 1>>, unlock))
            F_new == RInv(RSub(<<1, 1>>, sigma_new))
            F_baseline == RInv(RSub(<<1, 1>>, sim[i].sigma))
            ratio == RDiv(F_new, F_baseline)
            price_ratio == RAdd(RDiv(sim[i].price_change_pct, <<100, 1>>), <<1, 1>>)
        IN /\ sim[i].sigma_new = sigma_new
           /\ sim[i].F_new = F_new
           /\ IF Elasticity[2] = 1
                THEN price_ratio = RPow(ratio, Elasticity[1])
                ELSE IsPower(price_ratio, ratio, Elasticity)

\* |a - b| <= 1e-9
Within1e9(a, b) ==
  /\ RLe(RSub(a, b), <<1, 1000000000>>)
  /\ RLe(<<-1, 1000000000>>, RSub(a, b))

\* C14: for every record that carries the three shares, share_market +
\* share_tourism + share_system_failure equals the record's stored sigma
\* within 1e-9.
C14_SharesSumToSigma ==
  (script = "choropleth_archetypes" /\ pc # "start") =>
    \A i \in 1..Len(muni_df) :
      ~IsNaN(muni_df[i].share_market) =>
        Within1e9(RAdd(RAdd(muni_df[i].share_market, muni_df[i].share_tourism),
                       muni_df[i].share_system_failure),
                  muni_df[i].sigma)

\* C15: every row of the table a joiner returns has its sigma.
C15_JoinedRowsHaveSigma ==
  (pc \in {"merged", "done"} /\ script # "export_unlock_json") =>
    \A i \in 1..Len(merged) : ~IsNaN(merged[i].sigma)

\* C16: a run of the matching pipeline prints the matched and unmatched
\* counts and the list of unmatched source names, and every source name that
\* ended without a matched candidate is in that list.
C16_UnmatchedNamesReported ==
  (HasOverrideStep(script) /\ pc \in {"merged", "done"}) =>
    /\ report.printed = "counts and lists"
    /\ \A i \in 1..Len(muni_df) :
         (muni_df[i].name # NAName /\ muni_df[i].matched_name = NAName) =>
           \E k \in 1..Len(report.unmatched_json) :
             report.unmatched_json[k] = muni_df[i].name

\* C17: no record with a locked share >= 1 carries a friction factor: the
\* friction file holds no F for a sigma >= 1, and no scenario holds an F_new
\* for a record whose sigma or sigma_new is >= 1.
C17_NoFrictionFromFullShare ==
  pc # "start" =>
    /\ \A i \in 1..Len(muni_df) :
         RLe(<<1, 1>>, muni_df[i].sigma) => IsNaN(muni_df[i].F)
    /\ \A i \in 1..Len(sim) :
         (RLe(<<1, 1>>, sim[i].sigma) \/ RLe(<<1, 1>>, sim[i].sigma_new)) =>
           IsNaN(sim[i].F_new)

\* C18: a record with s_total <= 0 has no sigma and no F in the friction
\* file and no sigma_new, F_new or price change in a scenario.
C18_NoStockNoValues ==
  pc # "start" =>
    /\ \A i \in 1..Len(muni_df) :
         (muni_df[i].s_total # NACount /\ muni_df[i].s_total <= 0) =>
           IsNaN(muni_df[i].sigma) /\ IsNaN(muni_df[i].F)
    /\ \A i \in 1..Len(sim) :
         sim[i].s_total <= 0 =>
           /\ IsNaN(sim[i].sigma_new)
           /\ IsNaN(sim[i].F_new)
           /\ IsNaN(sim[i].price_change_pct)

\* C19: a scenario step leaves the table it is computed from (the joined
\* table, or the friction table of the scripts that simulate before joining)
\* with the same columns and values.
C19_ScenarioLeavesTable ==
  [][(Simulate \/ GenerateFrames) => (merged' = merged /\ muni_df' = muni_df)]_vars

\* the row of the table that a stable descending sort followed by
\* drop_duplicates keeps for the matched_name m
FirstOfTopScore(df, m) ==
  df[CHOOSE i \in 1..Len(df) :
       /\ df[i].matched_name = m
       /\ \A j \in 1..Len(df) :
            df[j].matched_name = m =>
              \/ df[j].match_score < df[i].match_score
              \/ df[j].match_score = df[i].match_score /\ i <= j]

\* C20: of the rows with the same matched_name and the same top match_score
\* deduplication keeps the one that comes first in the table.
C20_TieKeepsFirstRow ==
  AfterDedup =>
    \A j \in 1..Len(dedup) :
      dedup[j] = FirstOfTopScore(muni_df, dedup[j].matched_name)

\* C21: after deduplication no row of the deduplicated table has a missing
\* matched_name (the rows the matcher left unmatched are all removed).
C21_DedupDropsUnmatched ==
  AfterDedup => \A i \in 1..Len(dedup) : dedup[i].matched_name # NAName

\* the number of source rows the printed output names as left out of the join
ReportedExclusions == Len(report.unmatched_json)

\* C22: every source row that was removed is counted in the printed output:
\* when no rows were folded into an aggregate, the number of records read
\* equals the number of rows of the joined output plus the exclusions the
\* run reported.
C22_ExclusionsReported ==
  (/\ HasOverrideStep(script)
   /\ pc \in {"merged", "done"}
   /\ Synthetic(Cephalonia) = <<>>) =>
    rows_in = Len(merged) + ReportedExclusions

\* the rows of the scenario that was computed last
ScenarioRows ==
  IF script = "generate_unlock_gif"
    THEN (IF pc = "done" THEN merged ELSE <<>>)
    ELSE sim

\* C23: a scenario is computed only for an unlock inside [0, 1] (0 to 100
\* percent), so that a record with sigma >= 0 never gets a negative sigma_new
\* or a sigma_new above its sigma.
C23_UnlockValidated ==
  \A i \in 1..Len(ScenarioRows) :
    /\ RLe(<<0, 1>>, unlock) /\ RLe(unlock, <<1, 1>>)
    /\ RLe(<<0, 1>>, ScenarioRows[i].sigma) =>
         /\ RLe(<<0, 1>>, ScenarioRows[i].sigma_new)
         /\ RLe(ScenarioRows[i].sigma_new, ScenarioRows[i].sigma)

\* the buckets of each classifier in the order of their sigma ranges
RowRank(l) ==
  CASE l = "EU_EFFICIENT" -> 0
    [] l = "EU_NORMAL" -> 1
    [] l = "MEDITERRANEAN_ACCEPTABLE" -> 2
    [] l = "ELEVATED_FRICTION" -> 3
    [] l = "STRUCTURAL_DYSFUNCTION" -> 4
    [] l = "MARKET_COLLAPSE" -> 5
    [] OTHER -> -1
EuRank(l) ==
  CASE l = "European Efficient" -> 0
    [] l = "European Normal" -> 1
    [] l = "Mediterranean Acceptable" -> 2
    [] l = "Elevated Friction" -> 3
    [] l = "Structural Dysfunction" -> 4
    [] l = "Market Collapse" -> 5
    [] OTHER -> -1
SimRank(l) ==
  CASE l = "HEALTHY" -> 0
    [] l = "TRANSITIONAL" -> 1
    [] l = "PROBLEMATIC" -> 2
    [] OTHER -> -1
\* the four labels of reclassify as four ranges of sigma
ReRank(l) ==
  CASE l = "HEALTHY" -> 0
    [] l = "TRANSITIONAL" -> 1
    [] l = "SYSTEM_FAILURE" -> 2
    [] l = "TOURIST_DRAIN" -> 3
    [] OTHER -> -1
\* the labels of reclassify by the sigma range they stand for
ReLevel(l) == IF l = "TOURIST_DRAIN" THEN 2 ELSE ReRank(l)

\* the classifiers that look at sigma only: every label is a bucket, and the
\* record with the smaller or equal sigma has the earlier or the same bucket
SigmaOnlyClassifiersOrdered ==
  \A i, j \in 1..2 :
    /\ RowRank(clabel.row[i]) >= 0
    /\ EuRank(clabel.eu[i]) >= 0
    /\ SimRank(clabel.sim[i]) >= 0
    /\ RLe(csigma[i], csigma[j]) =>
         /\ RowRank(clabel.row[i]) <= RowRank(clabel.row[j])
         /\ EuRank(clabel.eu[i]) <= EuRank(clabel.eu[j])
         /\ SimRank(clabel.sim[i]) <= SimRank(clabel.sim[j])

\* C24 as stated: each of the four classifiers puts every sigma >= 0 into
\* exactly one bucket, the buckets being ranges of sigma in increasing order,
\* so the record with the smaller or equal sigma never has the later bucket.
C24_BucketsAreSigmaRanges ==
  cpc = "done" =>
    /\ SigmaOnlyClassifiersOrdered
    /\ \A i, j \in 1..2 :
         /\ ReRank(clabel.re[i]) >= 0
         /\ RLe(csigma[i], csigma[j]) => ReRank(clabel.re[i]) <= ReRank(clabel.re[j])

\* C24 amended: classify_row, classify_eu and classify are ordered ranges of
\* sigma; reclassify has the ordered ranges HEALTHY, TRANSITIONAL and
\* sigma > 0.5, and the last one is TOURIST_DRAIN exactly when share_tourism
\* is above 0.3 and SYSTEM_FAILURE otherwise.
C24_BucketsOrdered ==
  cpc = "done" =>
    /\ SigmaOnlyClassifiersOrdered
    /\ \A i, j \in 1..2 :
         /\ ReLevel(clabel.re[i]) >= 0
         /\ RLe(csigma[i], csigma[j]) => ReLevel(clabel.re[i]) <= ReLevel(clabel.re[j])
         /\ ReLevel(clabel.re[i]) = 2 =>
              (clabel.re[i] = "TOURIST_DRAIN" <=> RLt(<<3, 10>>, ctourism[i]))

\* two records above sigma 0.5, the one with the smaller sigma a tourist
\* drain and the other a system failure; the other classifiers give both
\* the last bucket
C24_Witness ==
  /\ cpc = "done"
  /\ RLt(csigma[1], csigma[2])
  /\ clabel.re = <<"TOURIST_DRAIN", "SYSTEM_FAILURE">>
  /\ clabel.row = <<"MARKET_COLLAPSE", "MARKET_COLLAPSE">>
  /\ clabel.sim = <<"PROBLEMATIC", "PROBLEMATIC">>

\* the candidate key a one-to-one override gives the name, NAName for none
OverrideKeyOf(n) ==
  IF \E k \in 1..Len(OVER_ONE) : OVER_ONE[k][2] = n
    THEN OVER_ONE[CHOOSE k \in 1..Len(OVER_ONE) : OVER_ONE[k][2] = n][1]
    ELSE NAName

\* C25: the one-to-one override block marks exactly the rows whose name is
\* an override's source name (matched_name = candidate key, score 100),
\* leaves every other row as it was and adds no row, also for a table whose
\* rows were filtered before.
C25_OverrideMarksNamedRow ==
  [][(OverrideOne /\ HasOverrideStep(script)) =>
       /\ Len(muni_df') = Len(muni_df)
       /\ \A i \in 1..Len(muni_df) :
            muni_df'[i] =
              IF OverrideKeyOf(muni_df[i].name) # NAName
                THEN [muni_df[i] EXCEPT !.matched_name = OverrideKeyOf(muni_df[i].name),
                                        !.match_score = 100]
                ELSE muni_df[i]]_vars

\* C26: once the synthetic row of a many-to-one override was emitted, none
\* of its constituent rows is itself joined to a candidate: the joined table
\* holds no row named in the override's list.
C26_ConstituentsNotJoined ==
  (HasOverrideStep(script) /\ pc \in {"merged", "done"}) =>
    \A k \in 1..Len(OVER_MANY) :
      Synthetic(OVER_MANY[k][1]) # <<>> =>
        \A i \in 1..Len(merged) : ~InList(merged[i].name, OVER_MANY[k][2])

\* C27: for a candidate key named by a one-to-one override whose source name
\* is in the table, the row that survives deduplication for the key is the
\* row of that source name; for a many-to-one override that emitted its
\* synthetic row it is the synthetic row.
C27_OverrideRowSurvives ==
  AfterDedup =>
    \A j \in 1..Len(dedup) :
      /\ \A k \in 1..Len(OVER_ONE) :
           (HasName(muni_df, OVER_ONE[k][2]) /\ dedup[j].matched_name = OVER_ONE[k][1]) =>
             dedup[j].name = OVER_ONE[k][2]
      /\ \A k \in 1..Len(OVER_MANY) :
           (Synthetic(OVER_MANY[k][1]) # <<>> /\ dedup[j].matched_name = OVER_MANY[k][1]) =>
             dedup[j].name = AggName(OVER_MANY[k][1])

\* the joined table of generate_unlock_gif after generate_frames returned
AfterFrames == script = "generate_unlock_gif" /\ pc = "done"

\* Σ s_empty · (1 − p) / Σ s_total over the baseline columns of the table
BaselineNational(df, p) ==
  IF ColSum(df, "s_total") <= 0 THEN NaN
  ELSE RDiv(RatSum([i \in 1..Len(df) |-> RMul(IntR(df[i].s_empty), RSub(IntR(1), p))]),
            IntR(ColSum(df, "s_total")))

\* C28: generate_frames produces exactly one frame per level, in list order,
\* and the frame of level p shows sigma * (1 - p) for every record and
\* sum(s_empty * (1 - p)) / sum(s_total) for the country, both taken from the
\* baseline columns whatever levels were processed before.
C28_FramesFromBaseline ==
  AfterFrames =>
    /\ Len(frames) = Len(levels)
    /\ \A k \in 1..Len(levels) :
         /\ frames[k].pct = levels[k]
         /\ Len(frames[k].sigma_new) = Len(merged)
         /\ \A i \in 1..Len(merged) :
              frames[k].sigma_new[i] = RMul(merged[i].sigma, RSub(IntR(1), levels[k]))
         /\ frames[k].nat_new = BaselineNational(merged, levels[k])

\* two frames were produced for a joined record with dwellings locked, the
\* larger level first, and the second frame shows the baseline again
C28_Witness ==
  /\ AfterFrames
  /\ levels = <<<<1, 5>>, <<0, 1>>>>
  /\ Len(frames) = 2
  /\ Len(merged) >= 1
  /\ RLt(<<0, 1>>, merged[1].sigma)
  /\ frames[1].sigma_new[1] # merged[1].sigma
  /\ frames[2].sigma_new[1] = merged[1].sigma
  /\ ~IsNaN(frames[2].nat_new)

\* the table simulate_unlock returned, for an unlock fraction inside [0, 1]
AfterSimulateUnlock ==
  /\ script = "unlock_simulator"
  /\ sim # <<>>
  /\ RLe(<<0, 1>>, unlock) /\ RLe(unlock, <<1, 1>>)

\* C29: for a record with sigma >= 0 and an unlock fraction in [0, 1] the
\* simulated archetype of simulate_unlock is never more severe than the
\* baseline archetype (HEALTHY < TRANSITIONAL < PROBLEMATIC), and with no
\* unlock the two archetypes are equal.
C29_ArchetypeNeverWorse ==
  AfterSimulateUnlock =>
    \A i \in 1..Len(sim) :
      (~IsNaN(sim[i].sigma) /\ RLe(<<0, 1>>, sim[i].sigma)) =>
        /\ SimRank(sim[i].archetype_sim) >= 0
        /\ SimRank(sim[i].archetype_sim) <= SimRank(sim[i].archetype_base)
        /\ unlock = <<0, 1>> => sim[i].archetype_sim = sim[i].archetype_base

\* a record on the lower edge of TRANSITIONAL (sigma = 0.25) became HEALTHY
\* with a fifth of its locked stock released
C29_Witness ==
  /\ AfterSimulateUnlock
  /\ unlock = <<1, 5>>
  /\ \E i \in 1..Len(sim) :
       /\ sim[i].sigma = <<1, 4>>
       /\ sim[i].archetype_base = "TRANSITIONAL"
       /\ sim[i].archetype_sim = "HEALTHY"

\* the keys of ARCT_COLORS of choropleth_archetypes
ARCT_COLORS == {"TOURIST_DRAIN", "TRANSITIONAL", "HEALTHY", "SYSTEM_FAILURE"}

\* the number of rows of the matched table the legend of plot_static counts:
\* counts.get(label, 0) over the keys of ARCT_COLORS
LegendTotal == Len(SelectSeq(merged, LAMBDA r : r.archetype \in ARCT_COLORS))

\* C30: every row of the matched table of choropleth_archetypes carries an
\* archetype label that is a key of ARCT_COLORS, whether it came from the
\* input table or from a ManyToOne aggregate, and the per-label counts of
\* the legend sum to the number of matched rows.
C30_LabelsHaveColours ==
  (script = "choropleth_archetypes" /\ pc \in {"merged", "done"}) =>
    /\ \A i \in 1..Len(merged) : merged[i].archetype \in ARCT_COLORS
    /\ LegendTotal = Len(merged)

====
